---- MODULE Spec2Model ----
(***************************************************************************)
(* Listing CRUD and image-upload pipeline of Unipro-RealEstate.            *)
(*                                                                         *)
(* Two request pipelines are modelled, each on its own collection:         *)
(*   - the router pipeline: processUploadedImages middleware followed by   *)
(*     the controller (addProperty, updateProperty, deleteImage,           *)
(*     deleteProperty) on the LandListing collection (variable db);        *)
(*   - the inline routes of server.js (/api/properties...) on the          *)
(*     Property collection (variable sdb).                                 *)
(* The two are alternative deployments: app says which one serves.         *)
(*                                                                         *)
(* Three specifications share the handlers: Spec varies the files, image    *)
(* lists and remote outcomes of the requests; CreateSpec varies the fields  *)
(* of create requests; PatchSpec varies the fields of update requests       *)
(* while the clock advances.                                               *)
(*                                                                         *)
(* Further specifications cover what the handlers above do not: update     *)
(* requests whose awaits interleave (ConcurrentSpec), the maintenance      *)
(* routes and error responses (RoutesSpec), connectWithRetry of server     *)
(* start-up (ConnectSpec) and the listings page with its localStorage      *)
(* cache (BrowserSpec).                                                    *)
(*                                                                         *)
(* Strings on which the code does substring or split operations (image     *)
(* URLs and public ids) are sequences of one-letter strings.               *)
(***************************************************************************)
EXTENDS Integers, Sequences, FiniteSets, TLC

\* ------------------------------------------------------------------ bounds
MaxAssets == 3      \* uploads that succeed over one run
MaxFiles == 2       \* image files carried by one request
MaxIds == 2         \* documents ever inserted in one collection
MaxTime == 2        \* readings of the clock (Date.now) over one run
MaxRetries == 5     \* largest retries argument of connectWithRetry
MaxTicks == 3       \* advances of the browser's clock over one run

VARIABLES
  db,         \* LandListing collection: id -> document
  sdb,        \* Property collection of server.js: id -> document
  app,        \* which application serves: the router or server.js
  nextAsset,  \* number of assets uploaded so far
  nextId,     \* number of LandListing documents inserted so far
  snextId,    \* number of Property documents inserted so far
  last,       \* the last request and its response
  now,        \* Date.now()
  reqs,       \* update requests in flight: slot -> its position and locals
  rt,         \* maintenance routes: environment, test folder, last response
  cn,         \* the connectWithRetry call of server start-up
  br          \* the listings page in a browser

\* state of the processes that the CRUD handlers do not touch
sideVars == <<reqs, rt, cn, br>>

\* the state that the CRUD handlers work on
mainVars == <<app, db, sdb, nextAsset, nextId, snextId, last, now>>

vars == <<app, db, sdb, nextAsset, nextId, snextId, last, now, sideVars>>

\* ------------------------------------------------------- strings and assets
AssetChar == <<"a", "b", "c", "d", "e", "f", "g", "i">>

\* upload folders: 'unipro/listings' (router), 'property-by-fridah' (server.js)
RouterFolder == "p"
ServerFolder == "q"

\* result.public_id of an upload: folder/name
PublicIdOf(folder, a) == <<folder, "/", AssetChar[a]>>

\* result.secure_url of an upload: host/public_id.format
SecureUrlOf(folder, a) == <<"h", "/">> \o PublicIdOf(folder, a) \o <<".", "w">>

\* String.prototype.includes
Includes(s, sub) ==
  \E i \in 0..(Len(s) - Len(sub)) : SubSeq(s, i + 1, i + Len(sub)) = sub

\* image of the sample listing: a demo asset that no request uploaded
SampleUrl == <<"h", "/", "d", "/", "s", ".", "j">>
SampleTitle == "sample"

\* Array.prototype.filter
Filter(s, Keep(_)) == SelectSeq(s, Keep)

\* Array.prototype.map
Map(s, F(_)) == [i \in 1..Len(s) |-> F(s[i])]

Range(s) == {s[i] : i \in 1..Len(s)}

\* ----------------------------------------------------------- media host
\* cloudinary.uploader.destroy: "ok" resolves, "throw" rejects (network fault,
\* timeout). The calls a request makes are recorded in last.destroyed.
DestroyOutcomes == {"ok", "throw"}


\* ------------------------------------------------- upload middleware
\* uploadPromises: one outcome per file, tagged by the file's index;
\* 0 stands for null (the upload of that file failed).
Successes(outcomes, i) == Cardinality({j \in 1..i : outcomes[j]})

UploadResults(outcomes, base) ==
  [i \in 1..Len(outcomes) |->
     IF outcomes[i] THEN base + Successes(outcomes, i) ELSE 0]

FileEntry(a) ==
  [url |-> SecureUrlOf(RouterFolder, a), publicId |-> PublicIdOf(RouterFolder, a)]

NotNull(r) == r # 0

\* req.processedFiles = results.filter(result => result !== null)
ProcessedFiles(outcomes, base) ==
  Map(Filter(UploadResults(outcomes, base), NotNull), FileEntry)

UrlOfFile(f) == f.url
PublicIdOfFile(f) == f.publicId

\* middleware answers 400 when files were sent and none was uploaded
AllUploadsFailed(nfiles, processed) == Len(processed) = 0 /\ nfiles > 0


OutcomeSeqs == UNION {[1..n -> BOOLEAN] : n \in 0..MaxFiles}

\* -------------------------------------------------------------- request bodies
\* A price text: typ is the JavaScript type of the field ("undefined" when the
\* field is absent or empty), kes whether the text starts with "KES", numeric
\* whether parseFloat reads a number from what follows, num that number.
PriceText(typ, kes, numeric, num) ==
  [typ |-> typ, kes |-> kes, numeric |-> numeric, num |-> num]

\* parsePrice
parsePrice(price) ==
  IF price.typ = "number" THEN price.num
  ELSE IF price.typ = "undefined" THEN 0
  ELSE IF price.numeric THEN price.num ELSE 0

\* !x of a form field
Falsy(text) == text.typ = "undefined" \/ (text.typ = "number" /\ text.num = 0)

\* String.prototype.toLowerCase on the type names of the model
ToLowerCase(str) == IF str = "Land-Res" THEN "land-res" ELSE str

\* an absent form field
NoText == PriceText("undefined", FALSE, FALSE, 0)

\* String(n) of an integer
DigitChar == <<"0", "1", "2", "3", "4", "5", "6", "7", "8", "9">>

RECURSIVE Digits(_)
Digits(n) ==
  IF n < 10 THEN <<DigitChar[n + 1]>>
  ELSE Digits(n \div 10) \o <<DigitChar[(n % 10) + 1]>>

NumberToString(n) == IF n < 0 THEN <<"-">> \o Digits(-n) ELSE Digits(n)

\* Number.prototype.toLocaleString(): digits in groups of three
GroupThousands(ds) ==
  LET n == Len(ds)
      F[i \in 0..n] ==
        IF i = 0 THEN <<>>
        ELSE F[i - 1] \o (IF i > 1 /\ (n - i + 1) % 3 = 0
                          THEN <<",", ds[i]>> ELSE <<ds[i]>>)
  IN  F[n]

ToLocaleString(n) ==
  IF n < 0 THEN <<"-">> \o GroupThousands(Digits(-n))
  ELSE GroupThousands(Digits(n))

\* `KES ${numericPrice.toLocaleString()}`
FormattedPrice(n) == <<"K", "E", "S", " ">> \o ToLocaleString(n)

\* the characters of a price text as a client sent it
TextOf(price) ==
  IF price.typ = "undefined" THEN <<>>
  ELSE IF price.typ = "number" THEN NumberToString(price.num)
  ELSE (IF price.kes THEN <<"K", "E", "S", " ">> ELSE <<>>)
         \o (IF price.numeric THEN NumberToString(price.num)
             ELSE IF price.kes THEN <<>> ELSE <<"x">>)

\* the bodies of create requests, by name
ValidBody ==
  [title |-> "Plot A", location |-> "Kitengela", type |-> "land-res",
   price |-> PriceText("string", TRUE, TRUE, 5),
   priceNum |-> PriceText("string", FALSE, TRUE, 5),
   plotSize |-> "1/8 acre", status |-> "available", description |-> "A"]

AddBody(name) ==
  CASE name = "valid" -> ValidBody
    [] name = "noTitle" -> [ValidBody EXCEPT !.title = ""]
    [] name = "badType" -> [ValidBody EXCEPT !.type = "condo"]
    [] name = "badPrice" ->
         [ValidBody EXCEPT !.price = PriceText("string", FALSE, FALSE, 0)]
    [] name = "negPriceNum" ->
         [ValidBody EXCEPT !.priceNum = PriceText("string", FALSE, TRUE, -5)]
    [] name = "mixedCaseType" -> [ValidBody EXCEPT !.type = "Land-Res"]
    [] name = "noPrice" ->
         [ValidBody EXCEPT !.price = NoText,
                           !.priceNum = PriceText("string", FALSE, TRUE, 1500)]
    [] name = "noTitleBadStatus" ->
         [ValidBody EXCEPT !.title = "", !.status = "bogus"]
    [] name = "badTypeNegPriceNum" ->
         [ValidBody EXCEPT !.type = "condo",
                           !.priceNum = PriceText("string", FALSE, TRUE, -5)]

AddBodyNames == {"valid", "noTitle", "badType", "badPrice"}

\* create requests that differ in their fields
FieldBodyNames ==
  AddBodyNames \cup {"negPriceNum", "mixedCaseType", "noPrice",
                     "noTitleBadStatus", "badTypeNegPriceNum"}

\* ------------------------------------------------------------ last request
\* no Date
NoTime == -1

NoDoc ==
  [title |-> "", type |-> "", status |-> "", price |-> <<>>, priceNum |-> 0,
   description |-> "", images |-> <<>>, cloudinaryPublicIds |-> <<>>,
   createdAt |-> NoTime, updatedAt |-> NoTime]

\* the fields of an update body besides images ("" and NoText: absent)
NoPatch ==
  [status |-> "", description |-> "", price |-> NoText, priceNum |-> NoText,
   createdAt |-> NoTime]

NoLast ==
  [op |-> "none", id |-> 0, status |-> 0, nfiles |-> 0, uploaded |-> <<>>,
   destroyed |-> {}, douts |-> <<>>, pid |-> <<>>, body |-> "",
   existed |-> FALSE, before |-> NoDoc, hasImages |-> FALSE, kept |-> <<>>,
   created |-> FALSE, errors |-> {}, patch |-> NoPatch, at |-> 0]

\* requests served at the same time
Slots == {1, 2}

\* a slot that has received no request
NoReq ==
  [pc |-> "idle", id |-> 0, n |-> 0, out |-> <<>>, order |-> <<>>,
   processed |-> <<>>, found |-> FALSE, property |-> NoDoc, status |-> 0,
   images |-> <<>>, publicIds |-> <<>>, destroyed |-> {}]

\* a value that may be undefined: a request header, an environment variable
Undefined == [defined |-> FALSE, text |-> ""]

Str(text) == [defined |-> TRUE, text |-> text]

\* no response yet
NoRes ==
  [route |-> "none", status |-> 0, success |-> TRUE, keys |-> {},
   header |-> Undefined, issued |-> FALSE]

\* the router process with process.env.ADMIN_TOKEN = token
NoRoutes(token) ==
  [ADMIN_TOKEN |-> token, test |-> {}, nextTest |-> 0, res |-> NoRes]

\* connectWithRetry before it is called
NoConn ==
  [pc |-> "idle", retries |-> 0, delay |-> 0, i |-> 0, attempts |-> 0,
   failures |-> <<>>, waited |-> 0, result |-> "none", thrown |-> "",
   server |-> "none"]

\* localStorage.getItem(CONFIG.cacheKey) when nothing is stored
NoItem == [kind |-> "absent", timestamp |-> 0, data |-> <<>>]

\* the null that getCachedProperties returns
Null == [null |-> TRUE, data |-> <<>>]

\* no call of getCachedProperties yet
NoGot == [called |-> FALSE, result |-> Null, at |-> 0, wHas |-> FALSE,
          wData |-> <<>>, wAt |-> 0]

\* no write by setCachedProperties stands in the storage
NoWrite == [has |-> FALSE, data |-> <<>>, at |-> 0]

\* the listings page before it is opened: state, what the grid shows,
\* localStorage and Date.now()
NoBrowser ==
  [page |-> "closed", hasAdminAPI |-> FALSE, properties |-> <<>>,
   rendered |-> <<>>, skeletons |-> FALSE, isLoading |-> FALSE, runs |-> 0,
   ended |-> "none", ignored |-> FALSE, storage |-> NoItem, clock |-> 0,
   ticks |-> 0, got |-> NoGot, written |-> NoWrite]

Init ==
  /\ db = <<>>
  /\ sdb = <<>>
  /\ app \in {"router", "server"}
  /\ nextAsset = 0
  /\ nextId = 0
  /\ snextId = 0
  /\ last = NoLast
  /\ now = 1
  /\ reqs = [r \in Slots |-> NoReq]
  /\ rt = NoRoutes(Undefined)
  /\ cn = NoConn
  /\ br = NoBrowser

\* ------------------------------------------------------------ store layer
StatusEnum == {"available", "sold", "reserved"}

LandTypeEnum == {"land-res", "land-comm", "ranch", "plot", "subdivision-ready", "title-deed-ready"}

\* priceNum: min: [0, 'Price must be positive'] (both schemas)
MinPriceNum == 0

\* variant of PriceNumValid: a schema without the min validator
PriceNumValidNoMin(n) == TRUE

\* the min validator of priceNum
PriceNumValid(n) == n >= MinPriceNum

\* landListingSchema validators run by save() on a new document: the paths of
\* err.errors
LandListingErrors(doc) ==
  (IF "title" \in DOMAIN doc /\ doc.title # "" THEN {} ELSE {"title"})
  \cup (IF "location" \in DOMAIN doc /\ doc.location # "" THEN {} ELSE {"location"})
  \cup (IF "type" \in DOMAIN doc /\ ToLowerCase(doc.type) \in LandTypeEnum
        THEN {} ELSE {"type"})
  \cup (IF "status" \in DOMAIN doc /\ doc.status \in StatusEnum
        THEN {} ELSE {"status"})
  \cup (IF "price" \in DOMAIN doc /\ doc.price # <<>> THEN {} ELSE {"price"})
  \cup (IF "priceNum" \in DOMAIN doc /\ PriceNumValid(doc.priceNum)
        THEN {} ELSE {"priceNum"})
  \cup (IF "plotSize" \in DOMAIN doc /\ doc.plotSize # "" THEN {} ELSE {"plotSize"})

ValidLandListing(doc) == LandListingErrors(doc) = {}

\* the document as stored (the schema paths the model follows); createdAt and
\* updatedAt default to Date.now, pre('save') sets updatedAt
StoredLandListing(doc, t) ==
  [title |-> doc.title, type |-> ToLowerCase(doc.type), status |-> doc.status,
   price |-> doc.price, priceNum |-> doc.priceNum,
   description |-> doc.description, images |-> doc.images,
   cloudinaryPublicIds |-> doc.cloudinaryPublicIds,
   createdAt |-> t, updatedAt |-> t]

Insert(coll, id, doc) ==
  [i \in DOMAIN coll \cup {id} |-> IF i = id THEN doc ELSE coll[i]]

Remove(coll, id) == [i \in DOMAIN coll \ {id} |-> coll[i]]

\* ------------------------------------------------- controller: addProperty
\* propertyData built by addProperty (it has no plotSize path)
AddPropertyData(body, processed) ==
  [title |-> body.title, location |-> body.location,
   type |-> ToLowerCase(body.type),
   price |-> FormattedPrice(parsePrice(body.price)),
   priceNum |-> parsePrice(body.price),
   status |-> ToLowerCase(body.status),
   description |-> body.description,
   images |-> Map(processed, UrlOfFile),
   cloudinaryPublicIds |-> Map(processed, PublicIdOfFile)]

\* the early returns of addProperty: 0 when the request passes them
AddEarlyStatus(body) ==
  IF body.title = "" \/ body.location = "" \/ body.type = ""
     \/ Falsy(body.price) \/ Falsy(body.priceNum)
  THEN 400
  ELSE IF parsePrice(body.price) <= 0 THEN 400 ELSE 0

\* the fields named by the early returns of addProperty: the fixed list
\* `required` of the first, the price of the second
AddEarlyErrors(body) ==
  IF body.title = "" \/ body.location = "" \/ body.type = ""
     \/ Falsy(body.price) \/ Falsy(body.priceNum)
  THEN {"title", "location", "type", "price", "priceNum"}
  ELSE IF parsePrice(body.price) <= 0 THEN {"price"} ELSE {}

\* catch block of addProperty and updateProperty: destroy is called for every
\* processed file, each rejection is caught
CleanupIds(processed) == Map(processed, PublicIdOfFile)

DestroySeqs(n) == [1..n -> DestroyOutcomes]

\* POST /add: upload.array, processUploadedImages, addProperty
AddProperty(name, outcomes, douts) ==
  LET body == AddBody(name)
      processed == ProcessedFiles(outcomes, nextAsset)
      k == Len(processed)
      data == AddPropertyData(body, processed)
      base == [NoLast EXCEPT !.op = "add", !.nfiles = Len(outcomes),
                             !.uploaded = processed, !.body = name, !.at = now]
  IN
  /\ nextAsset + k <= MaxAssets
  /\ nextAsset' = nextAsset + k
  /\ app = "router"
  /\ UNCHANGED <<sideVars, app, now, sdb, snextId>>
  /\ IF AllUploadsFailed(Len(outcomes), processed)
     THEN /\ last' = [base EXCEPT !.status = 400]
          /\ UNCHANGED <<db, nextId>>
     ELSE IF AddEarlyStatus(body) # 0
     THEN /\ last' = [base EXCEPT !.status = AddEarlyStatus(body),
                                  !.errors = AddEarlyErrors(body)]
          /\ UNCHANGED <<db, nextId>>
     ELSE IF ValidLandListing(data) /\ nextId < MaxIds
     THEN /\ db' = Insert(db, nextId + 1, StoredLandListing(data, now))
          /\ nextId' = nextId + 1
          /\ last' = [base EXCEPT !.status = 201, !.id = nextId + 1,
                                  !.created = TRUE]
     ELSE /\ ~ValidLandListing(data)
          /\ Len(douts) = k
          /\ last' = [base EXCEPT !.status = 400,
                        !.errors = LandListingErrors(data),
                        !.destroyed = Range(CleanupIds(processed)),
                        !.douts = douts]
          /\ UNCHANGED <<db, nextId>>


\* ---------------------------------------------- controller: updateProperty
\* The client's explicit images list: the stored images it kept, in order
\* (admin.js removes entries of existingImages by index and sends the rest).
KeptImages(images, keep) ==
  LET idx == [i \in 1..Len(images) |-> i]
      Kept(i) == i \in keep
  IN  [j \in 1..Len(SelectSeq(idx, Kept)) |-> images[SelectSeq(idx, Kept)[j]]]

\* variant of AppendNew: the new entries replace the stored ones
AppendNewReplacing(existing, new) == new

\* [...(property.images || []), ...newImages]
AppendNew(existing, new) == existing \o new

\* updateData after the image step: a body images list is overwritten when
\* files were uploaded
UpdateImages(property, body, processed) ==
  IF Len(processed) > 0
  THEN AppendNew(property.images, Map(processed, UrlOfFile))
  ELSE IF body.hasImages THEN body.images ELSE property.images

UpdatePublicIds(property, body, processed) ==
  IF Len(processed) > 0
  THEN AppendNew(property.cloudinaryPublicIds, Map(processed, PublicIdOfFile))
  ELSE property.cloudinaryPublicIds

\* images validator of landListingSchema: v.startsWith('http')
ValidImageUrl(v) == Len(v) > 0 /\ v[1] = "h"

\* updateData.priceNum: parsePrice(updateData.price) when a price was sent,
\* else the priceNum of the body
UpdatePriceNum(body) ==
  IF ~Falsy(body.price) THEN [has |-> TRUE, num |-> parsePrice(body.price)]
  ELSE IF body.priceNum.typ # "undefined"
  THEN [has |-> TRUE, num |-> body.priceNum.num]
  ELSE [has |-> FALSE, num |-> 0]

\* updateData.price: reformatted from the parsed price
UpdatePrice(body) ==
  IF ~Falsy(body.price)
  THEN [has |-> TRUE, text |-> FormattedPrice(parsePrice(body.price))]
  ELSE [has |-> FALSE, text |-> <<>>]

\* runValidators on the paths present in updateData
ValidUpdate(body, images) ==
  /\ body.status # "" => ToLowerCase(body.status) \in StatusEnum
  /\ UpdatePriceNum(body).has => PriceNumValid(UpdatePriceNum(body).num)
  /\ \A i \in 1..Len(images) : ValidImageUrl(images[i])

\* the paths of err.errors of a rejected update
UpdateErrors(body, images) ==
  (IF body.status # "" => ToLowerCase(body.status) \in StatusEnum
   THEN {} ELSE {"status"})
  \cup (IF UpdatePriceNum(body).has => PriceNumValid(UpdatePriceNum(body).num)
        THEN {} ELSE {"priceNum"})
  \cup (IF \A i \in 1..Len(images) : ValidImageUrl(images[i])
        THEN {} ELSE {"images"})

\* an update body: the images list (when hasImages) and the other fields
PatchBody(hasImages, images, patch) ==
  [hasImages |-> hasImages, images |-> images, status |-> patch.status,
   description |-> patch.description, price |-> patch.price,
   priceNum |-> patch.priceNum, createdAt |-> patch.createdAt]

PatchOf(body) ==
  [status |-> body.status, description |-> body.description,
   price |-> body.price, priceNum |-> body.priceNum,
   createdAt |-> body.createdAt]

UpdateStatuses == {"", "sold", "bogus"}

\* PUT /:id: upload.array, processUploadedImages, updateProperty
UpdateProperty(id, body, outcomes, douts) ==
  LET processed == ProcessedFiles(outcomes, nextAsset)
      k == Len(processed)
      exists == id \in DOMAIN db
      property == IF exists THEN db[id] ELSE NoDoc
      base == [NoLast EXCEPT !.op = "update", !.id = id,
                 !.nfiles = Len(outcomes), !.uploaded = processed,
                 !.existed = exists, !.before = property,
                 !.hasImages = body.hasImages, !.kept = body.images,
                 !.patch = PatchOf(body), !.at = now]
      images == UpdateImages(property, body, processed)
      publicIds == UpdatePublicIds(property, body, processed)
  IN
  /\ nextAsset + k <= MaxAssets
  /\ nextAsset' = nextAsset + k
  /\ app = "router"
  /\ UNCHANGED <<sideVars, app, now, sdb, snextId, nextId>>
  /\ IF AllUploadsFailed(Len(outcomes), processed)
     THEN /\ last' = [base EXCEPT !.status = 400]
          /\ UNCHANGED db
     ELSE IF ~exists
     THEN /\ last' = [base EXCEPT !.status = 404]
          /\ UNCHANGED db
     ELSE IF ValidUpdate(body, images)
     THEN /\ db' = [db EXCEPT ![id] =
                      [@ EXCEPT !.images = images,
                                !.cloudinaryPublicIds = publicIds,
                                !.status = IF body.status # ""
                                           THEN ToLowerCase(body.status) ELSE @,
                                !.description = IF body.description # ""
                                                THEN body.description ELSE @,
                                !.price = IF UpdatePrice(body).has
                                          THEN UpdatePrice(body).text ELSE @,
                                !.priceNum = IF UpdatePriceNum(body).has
                                             THEN UpdatePriceNum(body).num ELSE @,
                                !.createdAt = IF body.createdAt # NoTime
                                              THEN body.createdAt ELSE @]]
          /\ last' = [base EXCEPT !.status = 200]
     ELSE /\ Len(douts) = k
          /\ last' = [base EXCEPT !.status = 400,
                        !.errors = UpdateErrors(body, images),
                        !.destroyed = Range(CleanupIds(processed)),
                        !.douts = douts]
          /\ UNCHANGED db

\* ------------------------------------------------- controller: deleteImage
\* property.images.filter(img => !img.includes(publicId))
ImagesWithout(images, publicId) ==
  LET Keep(img) == ~Includes(img, publicId) IN Filter(images, Keep)

\* property.cloudinaryPublicIds.filter(pid => pid !== publicId)
PublicIdsWithout(publicIds, publicId) ==
  LET Keep(pid) == pid # publicId IN Filter(publicIds, Keep)

\* public ids a client may send: none, the id of an asset, the folder prefix
\* that all uploaded assets share, an id that names nothing
PublicIdInputs ==
  {<<>>, <<RouterFolder>>, <<"z">>}
    \cup {PublicIdOf(RouterFolder, a) : a \in 1..MaxAssets}

\* DELETE /:id/image
DeleteImage(id, publicId, dout) ==
  LET exists == id \in DOMAIN db
      property == IF exists THEN db[id] ELSE NoDoc
      base == [NoLast EXCEPT !.op = "deleteImage", !.id = id, !.pid = publicId,
                 !.existed = exists, !.before = property, !.at = now]
      images == ImagesWithout(property.images, publicId)
      publicIds == PublicIdsWithout(property.cloudinaryPublicIds, publicId)
      imagesRemoved == Len(property.images) - Len(images)
  IN
  /\ app = "router"
  /\ UNCHANGED <<sideVars, app, now, sdb, snextId, nextId, nextAsset>>
  /\ IF publicId = <<>>
     THEN /\ last' = [base EXCEPT !.status = 400]
          /\ UNCHANGED db
     ELSE IF ~exists
     THEN /\ last' = [base EXCEPT !.status = 404]
          /\ UNCHANGED db
     ELSE IF dout = "throw"
     THEN /\ last' = [base EXCEPT !.status = 500, !.destroyed = {publicId},
                                  !.douts = <<dout>>]
          /\ UNCHANGED db
     ELSE IF imagesRemoved = 0
     THEN /\ last' = [base EXCEPT !.status = 404, !.destroyed = {publicId},
                                  !.douts = <<dout>>]
          /\ UNCHANGED db
     ELSE /\ db' = [db EXCEPT ![id] =
                      [@ EXCEPT !.images = images,
                                !.cloudinaryPublicIds = publicIds,
                                !.updatedAt = now]]
          /\ last' = [base EXCEPT !.status = 200, !.destroyed = {publicId},
                                  !.douts = <<dout>>]

\* ---------------------------------------------- controller: deleteProperty
\* variant of DeletionsThrow: Promise.all over destroy calls without catch
DeletionsThrowOnReject(douts) == \E i \in 1..Len(douts) : douts[i] = "throw"

\* Promise.allSettled over destroy calls that each catch their rejection:
\* the await never throws, whatever the outcomes
DeletionsThrow(douts) == FALSE

\* DELETE /:id
DeleteProperty(id, douts) ==
  LET exists == id \in DOMAIN db
      property == IF exists THEN db[id] ELSE NoDoc
      base == [NoLast EXCEPT !.op = "delete", !.id = id,
                 !.existed = exists, !.before = property]
  IN
  /\ app = "router"
  /\ UNCHANGED <<sideVars, app, now, sdb, snextId, nextId, nextAsset>>
  /\ IF ~exists
     THEN /\ last' = [base EXCEPT !.status = 404]
          /\ UNCHANGED db
     ELSE /\ Len(douts) = Len(property.cloudinaryPublicIds)
          /\ IF DeletionsThrow(douts)
             THEN /\ last' = [base EXCEPT !.status = 500,
                                !.destroyed = Range(property.cloudinaryPublicIds),
                                !.douts = douts]
                  /\ UNCHANGED db
             ELSE /\ db' = Remove(db, id)
                  /\ last' = [base EXCEPT !.status = 200,
                                !.destroyed = Range(property.cloudinaryPublicIds),
                                !.douts = douts]

\* --------------------------------------------- controller: getPropertyById
\* GET /:id
GetPropertyById(id) ==
  /\ last' = [NoLast EXCEPT !.op = "get", !.id = id,
                !.existed = id \in DOMAIN db,
                !.status = IF id \in DOMAIN db THEN 200 ELSE 404]
  /\ app = "router"
  /\ UNCHANGED <<sideVars, app, now, db, sdb, nextAsset, nextId, snextId>>

\* ------------------------------------------------------ POST /sample
SamplePrice == <<"K", "E", "S", " ", "3", "5", "0", ",", "0", "0", "0">>

SampleListing ==
  [title |-> SampleTitle, type |-> "land-res", status |-> "available",
   price |-> SamplePrice, priceNum |-> 350000, description |-> "S",
   images |-> <<SampleUrl>>, cloudinaryPublicIds |-> <<>>,
   createdAt |-> NoTime, updatedAt |-> NoTime]

CreateSample ==
  /\ app = "router"
  /\ UNCHANGED <<sideVars, app, now, sdb, snextId, nextAsset>>
  /\ IF \E i \in DOMAIN db : db[i].title = SampleTitle
     THEN /\ last' = [NoLast EXCEPT !.op = "sample", !.status = 409]
          /\ UNCHANGED <<db, nextId>>
     ELSE /\ nextId < MaxIds
          /\ db' = Insert(db, nextId + 1,
                          [SampleListing EXCEPT !.createdAt = now,
                                                !.updatedAt = now])
          /\ nextId' = nextId + 1
          /\ last' = [NoLast EXCEPT !.op = "sample", !.status = 201,
                        !.id = nextId + 1, !.created = TRUE, !.at = now]


\* ===================================================== server.js inline routes
\* String.prototype.split(sep), last part / first part
LastIndexOf(str, ch) ==
  LET hits == {i \in 1..Len(str) : str[i] = ch}
  IN  IF hits = {} THEN 0 ELSE CHOOSE i \in hits : \A j \in hits : j <= i

FirstIndexOf(str, ch) ==
  LET hits == {i \in 1..Len(str) : str[i] = ch}
  IN  IF hits = {} THEN Len(str) + 1 ELSE CHOOSE i \in hits : \A j \in hits : i <= j

LastPart(str, ch) == SubSeq(str, LastIndexOf(str, ch) + 1, Len(str))
FirstPart(str, ch) == SubSeq(str, 1, FirstIndexOf(str, ch) - 1)

\* app.delete: `property-by-fridah/${filename.split('.')[0]}`
ServerPublicIdFromUrl(imageUrl) ==
  <<ServerFolder, "/">> \o FirstPart(LastPart(imageUrl, "/"), ".")

ServerTypeEnum ==
  {"house", "apartment", "land", "commercial", "bungalow", "maisonette",
   "townhouse", "studio", "villa", "office", "shop", "warehouse",
   "land-res", "land-comm", "ranch"}

ServerStatusEnum == {"available", "sold", "rented", "pending", "reserved"}

ServerMaxImages == 10

\* parseFloat(x) || 0
ParseFloatOr0(text) ==
  IF text.typ = "number" THEN text.num
  ELSE IF text.typ = "string" /\ text.numeric THEN text.num ELSE 0

\* `KES ${parseInt(req.body.priceNum || 0).toLocaleString()}`
ServerDerivedPrice(priceNum) ==
  IF priceNum.typ = "undefined" THEN FormattedPrice(0)
  ELSE IF priceNum.typ = "number" \/ priceNum.numeric
  THEN FormattedPrice(priceNum.num)
  ELSE <<"K", "E", "S", " ", "N", "a", "N">>

\* propertyData of app.post('/api/properties/add')
ServerPropertyData(body, uploadedImages) ==
  [title |-> body.title, location |-> body.location, type |-> body.type,
   status |-> IF body.status = "" THEN "available" ELSE body.status,
   price |-> IF Falsy(body.price) THEN ServerDerivedPrice(body.priceNum)
             ELSE TextOf(body.price),
   priceNum |-> ParseFloatOr0(body.priceNum),
   description |-> body.description,
   images |-> uploadedImages]

\* propertySchema validators: the paths of error.errors
PropertyErrors(doc) ==
  (IF doc.title # "" THEN {} ELSE {"title"})
  \cup (IF doc.location # "" THEN {} ELSE {"location"})
  \cup (IF doc.type \in ServerTypeEnum THEN {} ELSE {"type"})
  \cup (IF doc.status \in ServerStatusEnum THEN {} ELSE {"status"})
  \cup (IF doc.price # <<>> THEN {} ELSE {"price"})
  \cup (IF PriceNumValid(doc.priceNum) THEN {} ELSE {"priceNum"})
  \cup (IF Len(doc.images) <= ServerMaxImages THEN {} ELSE {"images"})

ValidProperty(doc) == PropertyErrors(doc) = {}

\* the stored document; timestamps: true sets createdAt and updatedAt
StoredProperty(doc, t) ==
  [title |-> doc.title, type |-> doc.type, status |-> doc.status,
   price |-> doc.price, priceNum |-> doc.priceNum,
   description |-> doc.description, images |-> doc.images,
   createdAt |-> t, updatedAt |-> t]

\* the for loop of app.post: secure_url of every upload that succeeded
ServerUploadedImages(outcomes, base) ==
  LET Url(a) == SecureUrlOf(ServerFolder, a)
  IN  Map(Filter(UploadResults(outcomes, base), NotNull), Url)

AsDoc(sdoc) ==
  [NoDoc EXCEPT !.title = sdoc.title, !.type = sdoc.type,
                !.status = sdoc.status, !.price = sdoc.price,
                !.priceNum = sdoc.priceNum, !.description = sdoc.description,
                !.images = sdoc.images, !.createdAt = sdoc.createdAt,
                !.updatedAt = sdoc.updatedAt]

\* POST /api/properties/add
ServerAdd(name, outcomes) ==
  LET body == AddBody(name)
      uploadedImages == ServerUploadedImages(outcomes, nextAsset)
      k == Len(uploadedImages)
      data == ServerPropertyData(body, uploadedImages)
      base == [NoLast EXCEPT !.op = "sadd", !.nfiles = Len(outcomes),
                 !.body = name, !.at = now,
                 !.uploaded = [i \in 1..k |->
                    [url |-> uploadedImages[i],
                     publicId |-> PublicIdOf(ServerFolder, nextAsset + i)]]]
  IN
  /\ nextAsset + k <= MaxAssets
  /\ nextAsset' = nextAsset + k
  /\ app = "server"
  /\ UNCHANGED <<sideVars, app, now, db, nextId>>
  /\ IF data.title = "" \/ data.location = "" \/ data.type = "" \/ data.priceNum = 0
     THEN /\ last' = [base EXCEPT !.status = 400,
                        !.errors = {"title", "location", "type", "price"}]
          /\ UNCHANGED <<sdb, snextId>>
     ELSE IF ValidProperty(data)
     THEN /\ snextId < MaxIds
          /\ sdb' = Insert(sdb, snextId + 1, StoredProperty(data, now))
          /\ snextId' = snextId + 1
          /\ last' = [base EXCEPT !.status = 201, !.id = snextId + 1,
                                  !.created = TRUE]
     ELSE /\ last' = [base EXCEPT !.status = 400,
                                  !.errors = PropertyErrors(data)]
          /\ UNCHANGED <<sdb, snextId>>

\* the paths of error.errors of a rejected PATCH (runValidators)
ServerPatchErrors(body) ==
  (IF body.status # "" => body.status \in ServerStatusEnum
   THEN {} ELSE {"status"})
  \cup (IF body.priceNum.typ # "undefined" => PriceNumValid(body.priceNum.num)
        THEN {} ELSE {"priceNum"})
  \cup (IF body.hasImages => Len(body.images) <= ServerMaxImages
        THEN {} ELSE {"images"})

\* PATCH /api/properties/:id (JSON body, no files): createdAt is deleted from
\* the updates, updatedAt is set
ServerPatch(id, body) ==
  LET exists == id \in DOMAIN sdb
      base == [NoLast EXCEPT !.op = "spatch", !.id = id, !.existed = exists,
                 !.before = IF exists THEN AsDoc(sdb[id]) ELSE NoDoc,
                 !.hasImages = body.hasImages, !.kept = body.images,
                 !.patch = PatchOf(body), !.at = now]
  IN
  /\ app = "server"
  /\ UNCHANGED <<sideVars, app, now, db, nextId, snextId, nextAsset>>
  /\ IF ~exists
     THEN /\ last' = [base EXCEPT !.status = 404]
          /\ UNCHANGED sdb
     ELSE IF ServerPatchErrors(body) = {}
     THEN /\ sdb' = [sdb EXCEPT ![id] =
                      [@ EXCEPT !.images = IF body.hasImages THEN body.images ELSE @,
                                !.status = IF body.status # "" THEN body.status ELSE @,
                                !.description = IF body.description # ""
                                                THEN body.description ELSE @,
                                !.price = IF body.price.typ # "undefined"
                                          THEN TextOf(body.price) ELSE @,
                                !.priceNum = IF body.priceNum.typ # "undefined"
                                             THEN body.priceNum.num ELSE @,
                                !.updatedAt = now]]
          /\ last' = [base EXCEPT !.status = 200]
     ELSE /\ last' = [base EXCEPT !.status = 400,
                                  !.errors = ServerPatchErrors(body)]
          /\ UNCHANGED sdb

\* DELETE /api/properties/:id: every destroy call sits in its own try/catch
ServerDelete(id, douts) ==
  LET exists == id \in DOMAIN sdb
      images == IF exists THEN sdb[id].images ELSE <<>>
      publicIds == Map(images, ServerPublicIdFromUrl)
      base == [NoLast EXCEPT !.op = "sdelete", !.id = id, !.existed = exists,
                 !.before = IF exists THEN AsDoc(sdb[id]) ELSE NoDoc]
  IN
  /\ app = "server"
  /\ UNCHANGED <<sideVars, app, now, db, nextId, snextId, nextAsset>>
  /\ IF ~exists
     THEN /\ last' = [base EXCEPT !.status = 404]
          /\ UNCHANGED sdb
     ELSE /\ Len(douts) = Len(images)
          /\ sdb' = Remove(sdb, id)
          /\ last' = [base EXCEPT !.status = 200, !.destroyed = Range(publicIds),
                        !.douts = douts]

\* GET /api/properties/:id
ServerGet(id) ==
  /\ last' = [NoLast EXCEPT !.op = "sget", !.id = id,
                !.existed = id \in DOMAIN sdb,
                !.status = IF id \in DOMAIN sdb THEN 200 ELSE 404]
  /\ app = "server"
  /\ UNCHANGED <<sideVars, app, now, db, sdb, nextAsset, nextId, snextId>>

\* =============================================================== next-state
Ids == 1..MaxIds

ImagesOf(coll, id) == IF id \in DOMAIN coll THEN coll[id].images ELSE <<>>

\* update bodies: an optional explicit images list, an optional status
UpdateBodies(images) ==
  {PatchBody(FALSE, <<>>, [NoPatch EXCEPT !.status = st]) : st \in UpdateStatuses}
  \cup {PatchBody(TRUE, KeptImages(images, keep), NoPatch) :
          keep \in SUBSET (1..Len(images))}

\* one action per route, its inputs drawn from the sets above
PostAdd ==
  \E name \in AddBodyNames, outcomes \in OutcomeSeqs :
    \E douts \in DestroySeqs(Successes(outcomes, Len(outcomes))) :
      AddProperty(name, outcomes, douts)

PutUpdate ==
  \E id \in Ids, outcomes \in OutcomeSeqs :
    \E body \in UpdateBodies(ImagesOf(db, id)),
       douts \in DestroySeqs(Successes(outcomes, Len(outcomes))) :
      UpdateProperty(id, body, outcomes, douts)

DeleteImageRoute ==
  \E id \in Ids, publicId \in PublicIdInputs, dout \in DestroyOutcomes :
    DeleteImage(id, publicId, dout)

DeleteRoute ==
  \E id \in Ids :
    \E douts \in DestroySeqs(Len(IF id \in DOMAIN db
                                 THEN db[id].cloudinaryPublicIds ELSE <<>>)) :
      DeleteProperty(id, douts)

GetRoute == \E id \in Ids : GetPropertyById(id)

ServerPostAdd ==
  \E name \in AddBodyNames, outcomes \in OutcomeSeqs : ServerAdd(name, outcomes)

ServerPatchRoute ==
  \E id \in Ids : \E body \in UpdateBodies(ImagesOf(sdb, id)) : ServerPatch(id, body)

ServerDeleteRoute ==
  \E id \in Ids : \E douts \in DestroySeqs(Len(ImagesOf(sdb, id))) :
    ServerDelete(id, douts)

ServerGetRoute == \E id \in Ids : ServerGet(id)

Next ==
  \/ PostAdd
  \/ PutUpdate
  \/ DeleteImageRoute
  \/ DeleteRoute
  \/ GetRoute
  \/ CreateSample
  \/ ServerPostAdd
  \/ ServerPatchRoute
  \/ ServerDeleteRoute
  \/ ServerGetRoute

Spec == Init /\ [][Next]_vars

\* ------------------------------------------- requests that differ in fields
\* the clock advances between requests
Tick ==
  /\ now < MaxTime
  /\ now' = now + 1
  /\ UNCHANGED <<sideVars, app, db, sdb, nextAsset, nextId, snextId, last>>

\* a Date a client may send as createdAt
ForgedTime == 0

\* update payloads by the fields they carry
FieldPatches ==
  {[NoPatch EXCEPT !.status = "sold"],
   [NoPatch EXCEPT !.description = "B"],
   [NoPatch EXCEPT !.price = PriceText("string", TRUE, TRUE, 9)],
   [NoPatch EXCEPT !.price = PriceText("string", TRUE, TRUE, 9),
                   !.priceNum = PriceText("string", FALSE, TRUE, 7)],
   [NoPatch EXCEPT !.priceNum = PriceText("string", FALSE, TRUE, 7)],
   [NoPatch EXCEPT !.priceNum = PriceText("string", FALSE, TRUE, -5)],
   [NoPatch EXCEPT !.price = PriceText("string", FALSE, TRUE, -5)],
   [NoPatch EXCEPT !.price = PriceText("number", FALSE, TRUE, -5)],
   [NoPatch EXCEPT !.price = PriceText("string", TRUE, FALSE, 0)],
   [NoPatch EXCEPT !.createdAt = ForgedTime]}

\* an images list of one more than the ten of propertySchema
OverCapImages == [i \in 1..(ServerMaxImages + 1) |-> SampleUrl]

FieldUpdateBodies ==
  {PatchBody(FALSE, <<>>, patch) : patch \in FieldPatches}
    \cup {PatchBody(TRUE, OverCapImages, NoPatch)}

\* file outcomes of these requests: no file, or one file that uploads
FieldOutcomeSeqs == {<<>>, <<TRUE>>}

FieldPostAdd ==
  \E name \in FieldBodyNames, outcomes \in FieldOutcomeSeqs :
    \E douts \in DestroySeqs(Len(outcomes)) :
      AddProperty(name, outcomes, douts)

FieldServerPostAdd ==
  \E name \in FieldBodyNames, outcomes \in FieldOutcomeSeqs :
    ServerAdd(name, outcomes)

\* create requests of every kind of body
CreateNext ==
  \/ CreateSample
  \/ FieldPostAdd
  \/ FieldServerPostAdd
  \/ GetRoute
  \/ ServerGetRoute

CreateSpec == Init /\ [][CreateNext]_vars

\* the listing that update requests address: the first one stored
FieldIds == {1}

ValidPostAdd == \E douts \in DestroySeqs(0) : AddProperty("valid", <<>>, douts)

ValidServerPostAdd == \E name \in {"valid", "negPriceNum"} : ServerAdd(name, <<>>)

FieldPutUpdate ==
  \E id \in FieldIds, body \in FieldUpdateBodies :
    UpdateProperty(id, body, <<>>, <<>>)

FieldServerPatch ==
  \E id \in FieldIds, body \in FieldUpdateBodies : ServerPatch(id, body)

\* creation followed by update requests of every kind of payload, while the
\* clock advances
PatchNext ==
  \/ Tick
  \/ CreateSample
  \/ ValidPostAdd
  \/ FieldPutUpdate
  \/ ValidServerPostAdd
  \/ FieldServerPatch

PatchSpec == Init /\ [][PatchNext]_vars


\* ------------------------------------------ update requests served together
\* PUT /:id requests that carry image files and no fields, one per slot. The
\* steps of a request are the awaits of its handler chain: each upload of
\* processUploadedImages settles on its own, Promise.all resolves when all
\* have settled, then updateProperty awaits findById and findByIdAndUpdate.
EmptyBody == PatchBody(FALSE, <<>>, NoPatch)

\* what an upload callback returns on success
ProcessedFile(a, originalName) ==
  [url |-> SecureUrlOf(RouterFolder, a), publicId |-> PublicIdOf(RouterFolder, a),
   originalName |-> originalName]

\* the null an upload callback returns from its catch block
NullFile == [url |-> <<>>, publicId |-> <<>>, originalName |-> 0]

PendingUpload == [settled |-> FALSE, file |-> NullFile]

SettledUpload(file) == [settled |-> TRUE, file |-> file]

NotNullUpload(u) == u.file # NullFile

\* upload.array, processUploadedImages up to the first await: the map over
\* req.files starts every upload
ReceiveUpdate(r, id, n) ==
  /\ app = "router"
  /\ reqs[r].pc = "idle"
  /\ reqs' = [reqs EXCEPT ![r] =
       IF n = 0
       THEN [NoReq EXCEPT !.pc = "controller", !.id = id]
       ELSE [NoReq EXCEPT !.pc = "uploading", !.id = id, !.n = n,
                          !.out = [i \in 1..n |-> PendingUpload]]]
  /\ UNCHANGED <<app, db, sdb, nextAsset, nextId, snextId, last, now, rt, cn, br>>

\* uploadToCloudinary of file i resolves (the callback returns the file's
\* entry) or rejects (the callback returns null)
UploadSettles(r, i, ok) ==
  /\ reqs[r].pc = "uploading"
  /\ i \in 1..reqs[r].n
  /\ ~reqs[r].out[i].settled
  /\ IF ok
     THEN /\ nextAsset < MaxAssets
          /\ nextAsset' = nextAsset + 1
          /\ reqs' = [reqs EXCEPT ![r].out[i] =
                        SettledUpload(ProcessedFile(nextAsset + 1, i)),
                                  ![r].order = Append(@, i)]
     ELSE /\ reqs' = [reqs EXCEPT ![r].out[i] = SettledUpload(NullFile),
                                  ![r].order = Append(@, i)]
          /\ UNCHANGED nextAsset
  /\ UNCHANGED <<app, db, sdb, nextId, snextId, last, now, rt, cn, br>>

\* a Promise.all that would hand over the results as they settled
ResultsInSettlingOrder(q) == [j \in 1..q.n |-> q.out[q.order[j]]]

\* results = await Promise.all(uploadPromises): one result per promise, at
\* the position of the promise
PromiseAllResults(q) == [j \in 1..q.n |-> q.out[j]]

\* Promise.all resolves; req.processedFiles; 400 or next()
UploadsDone(r) ==
  LET q == reqs[r]
      FileOfUpload(u) == u.file
      processed == Map(Filter(PromiseAllResults(q), NotNullUpload), FileOfUpload)
  IN
  /\ q.pc = "uploading"
  /\ \A i \in 1..q.n : q.out[i].settled
  /\ reqs' = [reqs EXCEPT ![r] =
       IF AllUploadsFailed(q.n, processed)
       THEN [q EXCEPT !.pc = "done", !.status = 400, !.processed = processed]
       ELSE [q EXCEPT !.pc = "controller", !.processed = processed]]
  /\ UNCHANGED <<app, db, sdb, nextAsset, nextId, snextId, last, now, rt, cn, br>>

\* updateProperty: property = await Property.findById(req.params.id)
FindById(r) ==
  LET q == reqs[r]
      exists == q.id \in DOMAIN db
  IN
  /\ q.pc = "controller"
  /\ reqs' = [reqs EXCEPT ![r] =
       IF ~exists
       THEN [q EXCEPT !.pc = "done", !.status = 404]
       ELSE [q EXCEPT !.pc = "found", !.found = TRUE, !.property = db[q.id]]]
  /\ UNCHANGED <<app, db, sdb, nextAsset, nextId, snextId, last, now, rt, cn, br>>

\* updateProperty: updateData built from the property that was read, then
\* await Property.findByIdAndUpdate(req.params.id, updateData)
FindByIdAndUpdate(r) ==
  LET q == reqs[r]
      images == UpdateImages(q.property, EmptyBody, q.processed)
      publicIds == UpdatePublicIds(q.property, EmptyBody, q.processed)
  IN
  /\ q.pc = "found"
  /\ UNCHANGED <<app, sdb, nextAsset, nextId, snextId, last, now, rt, cn, br>>
  /\ IF ValidUpdate(EmptyBody, images)
     THEN /\ db' = [db EXCEPT ![q.id] =
                      IF Len(q.processed) > 0
                      THEN [@ EXCEPT !.images = images,
                                     !.cloudinaryPublicIds = publicIds]
                      ELSE @]
          /\ reqs' = [reqs EXCEPT ![r] =
                        [q EXCEPT !.pc = "done", !.status = 200,
                                  !.images = images, !.publicIds = publicIds]]
     ELSE /\ reqs' = [reqs EXCEPT ![r] =
                        [q EXCEPT !.pc = "done", !.status = 400,
                                  !.destroyed = Range(CleanupIds(q.processed))]]
          /\ UNCHANGED db

ReceiveUpdateRoute ==
  \E r \in Slots, id \in FieldIds, n \in 0..MaxFiles : ReceiveUpdate(r, id, n)

UploadSettlesStep ==
  \E r \in Slots, i \in 1..MaxFiles, ok \in BOOLEAN : UploadSettles(r, i, ok)

UploadsDoneStep == \E r \in Slots : UploadsDone(r)

FindByIdStep == \E r \in Slots : FindById(r)

FindByIdAndUpdateStep == \E r \in Slots : FindByIdAndUpdate(r)

ConcurrentNext ==
  \/ CreateSample
  \/ ReceiveUpdateRoute
  \/ UploadSettlesStep
  \/ UploadsDoneStep
  \/ FindByIdStep
  \/ FindByIdAndUpdateStep

ConcurrentSpec == Init /\ [][ConcurrentNext]_vars



\* ------------------------------------------------------- maintenance routes
\* res.status(status).json(body): keys are the fields of the body, success
\* the value of its success field when it has one
Json(route, status, success, keys) ==
  [NoRes EXCEPT !.route = route, !.status = status, !.success = success,
                !.keys = keys]

\* values of process.env.ADMIN_TOKEN: not set, set to the empty string, set
AdminTokens == {Undefined, Str(""), Str("t")}

\* values of req.headers['x-admin-token']: header absent, the token, another
AdminHeaders == {Undefined, Str("t"), Str("x")}

\* adminToken !== process.env.ADMIN_TOKEN
StrictlyUnequal(a, b) == a # b

\* upload.array('images', 2)
TestUploadMaxCount == 2

\* POST /test/upload; k uploads resolve, their assets are numbers
\* rt.nextTest + 1 .. rt.nextTest + k of folder unipro/test
TestUpload(outcomes) ==
  LET k == Cardinality({i \in 1..Len(outcomes) : outcomes[i]})
      NewTestAssets(first, n) == (first + 1)..(first + n)
  IN
  /\ app = "router"
  /\ Len(outcomes) <= TestUploadMaxCount
  /\ rt.nextTest + k <= MaxAssets
  /\ rt' = [rt EXCEPT
       !.nextTest = @ + k,
       !.test = @ \cup NewTestAssets(rt.nextTest, k),
       !.res = IF Len(outcomes) = 0
               THEN Json("test/upload", 400, FALSE, {"success", "message"})
               ELSE IF k = Len(outcomes)
               THEN Json("test/upload", 200, TRUE,
                         {"success", "message", "uploaded", "note"})
               ELSE Json("test/upload", 500, FALSE, {"success", "error"})]
  /\ UNCHANGED <<mainVars, reqs, cn, br>>

\* POST /admin/cleanup; ok is whether delete_resources_by_prefix resolves
AdminCleanup(header, ok) ==
  /\ app = "router"
  /\ UNCHANGED <<mainVars, reqs, cn, br>>
  /\ IF StrictlyUnequal(header, rt.ADMIN_TOKEN)
     THEN rt' = [rt EXCEPT !.res =
                   [Json("admin/cleanup", 403, FALSE, {"success", "message"})
                      EXCEPT !.header = header]]
     ELSE IF ok
     THEN rt' = [rt EXCEPT !.test = {},
                   !.res = [Json("admin/cleanup", 200, TRUE,
                                 {"success", "message", "deleted"})
                              EXCEPT !.header = header, !.issued = TRUE]]
     ELSE rt' = [rt EXCEPT !.res =
                   [Json("admin/cleanup", 500, FALSE, {"success", "error"})
                      EXCEPT !.header = header, !.issued = TRUE]]

\* GET /debug/cloudinary; ok is whether cloudinary.api.resources resolves
DebugCloudinary(ok) ==
  /\ app = "router"
  /\ rt' = [rt EXCEPT !.res =
       IF ok THEN Json("debug/cloudinary", 200, TRUE, {"success", "cloudinary"})
       ELSE Json("debug/cloudinary", 500, FALSE, {"success", "error"})]
  /\ UNCHANGED <<mainVars, reqs, cn, br>>

\* GET /health; ok is whether cloudinary.api.ping resolves
Health(ok) ==
  /\ app = "router"
  /\ rt' = [rt EXCEPT !.res =
       IF ok
       THEN Json("health", 200, TRUE,
                 {"success", "status", "timestamp", "environment", "services",
                  "limits"})
       ELSE Json("health", 503, FALSE,
                 {"success", "status", "timestamp", "services"})]
  /\ UNCHANGED <<mainVars, reqs, cn, br>>

\* GET /info; ok is whether countDocuments and api.resources resolve
Info(ok) ==
  /\ app = "router"
  /\ rt' = [rt EXCEPT !.res =
       IF ok THEN Json("info", 200, TRUE, {"success", "data"})
       ELSE Json("info", 500, FALSE, {"success", "message", "code"})]
  /\ UNCHANGED <<mainVars, reqs, cn, br>>

\* names and codes of the errors a controller may throw
ErrorNames == {"ValidationError", "MongoError", "MulterError", "CastError", "Error"}

DuplicateKey == 11000

ErrorCodes == {0, DuplicateKey}

\* handleControllerError(controllerFn) when controllerFn throws error
HandleControllerError(name, code) ==
  /\ app = "router"
  /\ rt' = [rt EXCEPT !.res =
       IF name = "ValidationError"
       THEN Json("controller", 400, FALSE, {"success", "message", "errors"})
       ELSE IF name = "MongoError"
       THEN IF code = DuplicateKey
            THEN Json("controller", 409, FALSE, {"success", "message", "code"})
            ELSE Json("controller", 500, FALSE, {"success", "message", "code"})
       ELSE IF name = "MulterError"
       THEN Json("controller", 400, FALSE, {"success", "message", "code"})
       ELSE Json("controller", 500, FALSE, {"success", "message", "code"})]
  /\ UNCHANGED <<mainVars, reqs, cn, br>>

\* err.status of an error: 0 stands for undefined
ErrorStatuses == {0, 413}

\* error-handling middleware of server.js
ErrorMiddleware(name, code, status) ==
  /\ app = "server"
  /\ rt' = [rt EXCEPT !.res =
       IF name = "MulterError"
       THEN Json("middleware", 400, FALSE, {"success", "message", "error"})
       ELSE IF name = "ValidationError"
       THEN Json("middleware", 400, FALSE, {"success", "message", "errors"})
       ELSE IF code = DuplicateKey
       THEN Json("middleware", 409, FALSE, {"success", "message", "error"})
       ELSE IF name = "CastError"
       THEN Json("middleware", 400, FALSE, {"success", "message", "error"})
       ELSE Json("middleware", IF status # 0 THEN status ELSE 500, FALSE,
                 {"success", "message", "error"})]
  /\ UNCHANGED <<mainVars, reqs, cn, br>>

TestUploadRoute == \E outcomes \in OutcomeSeqs : TestUpload(outcomes)

AdminCleanupRoute ==
  \E header \in AdminHeaders, ok \in BOOLEAN : AdminCleanup(header, ok)

DebugCloudinaryRoute == \E ok \in BOOLEAN : DebugCloudinary(ok)

HealthRoute == \E ok \in BOOLEAN : Health(ok)

InfoRoute == \E ok \in BOOLEAN : Info(ok)

ControllerThrows ==
  \E name \in ErrorNames, code \in ErrorCodes : HandleControllerError(name, code)

MiddlewareCatches ==
  \E name \in ErrorNames, code \in ErrorCodes, status \in ErrorStatuses :
    ErrorMiddleware(name, code, status)

\* the process starts with some value of ADMIN_TOKEN in its environment
RoutesInit ==
  /\ db = <<>>
  /\ sdb = <<>>
  /\ app \in {"router", "server"}
  /\ nextAsset = 0
  /\ nextId = 0
  /\ snextId = 0
  /\ last = NoLast
  /\ now = 1
  /\ reqs = [r \in Slots |-> NoReq]
  /\ rt \in {NoRoutes(token) : token \in AdminTokens}
  /\ cn = NoConn
  /\ br = NoBrowser

RoutesNext ==
  \/ TestUploadRoute
  \/ AdminCleanupRoute
  \/ DebugCloudinaryRoute
  \/ HealthRoute
  \/ InfoRoute
  \/ ControllerThrows
  \/ MiddlewareCatches

RoutesSpec == RoutesInit /\ [][RoutesNext]_vars


\* -------------------------------------------------- database connection
\* connectWithRetry = async (retries = 5, delay = 5000)
DefaultRetries == 5

DefaultDelay == 5000

\* delays a caller may pass, in milliseconds
Delays == {1000, DefaultDelay}

\* messages of the errors mongoose.connect rejects with
ConnectErrors == {"ENOTFOUND", "timed out"}

\* for (let i = 0; i < retries; i++): the loop goes on to attempt i + 1, or
\* falls out of the function, which then returns undefined
LoopTest(c, i) ==
  IF i < c.retries
  THEN [c EXCEPT !.pc = "connecting", !.i = i, !.attempts = @ + 1]
  ELSE [c EXCEPT !.pc = "returned", !.i = i, !.result = "undefined"]

\* a catch block that rethrows one attempt late
LastAttemptLate(c) == c.i = c.retries

\* if (i === retries - 1)
LastAttempt(c) == c.i = c.retries - 1

\* the call, up to the first await mongoose.connect
ConnectWithRetry(retries, delay) ==
  /\ app = "server"
  /\ cn.pc = "idle"
  /\ cn' = LoopTest([NoConn EXCEPT !.retries = retries, !.delay = delay], 0)
  /\ UNCHANGED <<mainVars, reqs, rt, br>>

\* startServer, up to await connectWithRetry()
StartServer ==
  /\ app = "server"
  /\ cn.pc = "idle"
  /\ cn' = LoopTest([NoConn EXCEPT !.retries = DefaultRetries,
                                   !.delay = DefaultDelay,
                                   !.server = "starting"], 0)
  /\ UNCHANGED <<mainVars, reqs, rt, br>>

\* startServer after connectWithRetry returned: app.listen
ServerListens ==
  /\ cn.server = "starting"
  /\ cn.pc = "returned"
  /\ cn' = [cn EXCEPT !.server = "listening"]
  /\ UNCHANGED <<mainVars, reqs, rt, br>>

\* startServer after connectWithRetry threw: process.exit(1)
ProcessExits ==
  /\ cn.server = "starting"
  /\ cn.pc = "thrown"
  /\ cn' = [cn EXCEPT !.server = "exited"]
  /\ UNCHANGED <<mainVars, reqs, rt, br>>

\* await mongoose.connect resolves: return mongoose.connection
ConnectResolves ==
  /\ cn.pc = "connecting"
  /\ cn' = [cn EXCEPT !.pc = "returned", !.result = "connection"]
  /\ UNCHANGED <<mainVars, reqs, rt, br>>

\* await mongoose.connect rejects with err: throw err on the last attempt,
\* else start the timer
ConnectRejects(err) ==
  /\ cn.pc = "connecting"
  /\ cn' = IF LastAttempt(cn)
           THEN [cn EXCEPT !.pc = "thrown", !.thrown = err,
                           !.failures = Append(@, err)]
           ELSE [cn EXCEPT !.pc = "waiting", !.failures = Append(@, err)]
  /\ UNCHANGED <<mainVars, reqs, rt, br>>

\* setTimeout(resolve, delay) fires: i++ and the loop test
TimerFires ==
  /\ cn.pc = "waiting"
  /\ cn' = LoopTest([cn EXCEPT !.waited = @ + cn.delay], cn.i + 1)
  /\ UNCHANGED <<mainVars, reqs, rt, br>>

ConnectCall ==
  \E retries \in 0..MaxRetries, delay \in Delays :
    ConnectWithRetry(retries, delay)

ConnectSettles == ConnectResolves \/ \E err \in ConnectErrors : ConnectRejects(err)

ConnectNext ==
  \/ StartServer
  \/ ConnectCall
  \/ ConnectResolves
  \/ \E err \in ConnectErrors : ConnectRejects(err)
  \/ TimerFires
  \/ ServerListens
  \/ ProcessExits

\* mongoose.connect settles within its timeouts and a timer that was set
\* fires
ConnectSpec ==
  Init /\ [][ConnectNext]_vars /\ WF_vars(ConnectSettles) /\ WF_vars(TimerFires)


\* ---------------------------------------------------------- listings page
\* CONFIG.cacheTTL, milliseconds
cacheTTL == 10 * 60 * 1000

\* a listing as the API or getSampleProperties gives it
Listing(id, origin) == [id |-> id, origin |-> origin, processed |-> FALSE]

\* getSampleProperties()
getSampleProperties ==
  <<Listing(1, "sample"), Listing(2, "sample"), Listing(3, "sample")>>

\* non-empty arrays of listings the API may answer with
ApiListings == {<<Listing(1, "api")>>, <<Listing(2, "api"), Listing(1, "api")>>}

\* processPropertyData
processPropertyData(property) == [property EXCEPT !.processed = TRUE]

\* JSON.stringify({timestamp, data})
JSONStringify(timestamp, data) ==
  [kind |-> "entry", timestamp |-> timestamp, data |-> data]

\* texts that other code or an interrupted write may leave under the key:
\* text that is no JSON, the text null, an object without timestamp
UnreadableItems ==
  {[kind |-> k, timestamp |-> 0, data |-> <<>>] : k \in {"nojson", "null", "object"}}

\* a validity test that still accepts an entry of exactly cacheTTL
CacheValidInclusive(dateNow, timestamp) == dateNow - timestamp <= cacheTTL

\* Date.now() - cached.timestamp < CONFIG.cacheTTL
CacheValid(dateNow, timestamp) == dateNow - timestamp < cacheTTL

\* getCachedProperties: no item, JSON.parse throws, cached is null (reading
\* cached.timestamp throws), cached has no timestamp (the difference is NaN),
\* or an entry
getCachedProperties(raw, dateNow) ==
  IF raw.kind = "absent" THEN Null
  ELSE IF raw.kind = "nojson" THEN Null
  ELSE IF raw.kind = "null" THEN Null
  ELSE IF raw.kind = "object" THEN Null
  ELSE IF CacheValid(dateNow, raw.timestamp)
       THEN [null |-> FALSE, data |-> raw.data]
       ELSE Null

\* setCachedProperties(data); quota is whether localStorage.setItem throws
setCachedProperties(b, data, quota) ==
  IF quota THEN b
  ELSE [b EXCEPT !.storage = JSONStringify(b.clock, data),
                 !.written = [has |-> TRUE, data |-> data, at |-> b.clock]]

\* showSkeletons
showSkeletons(b) == [b EXCEPT !.rendered = <<>>, !.skeletons = TRUE]

\* applyFilters(true) with the filters of a fresh page: renders
\* state.properties, does nothing when there are none
applyFilters(b) ==
  IF Len(b.properties) = 0 THEN b
  ELSE [b EXCEPT !.rendered = b.properties, !.skeletons = FALSE]

\* a loadProperties without its finally block
LoadNoFinally(b) == [b EXCEPT !.runs = 0]

\* loadProperties: finally { state.isLoading = false }
LoadFinally(b) == [b EXCEPT !.isLoading = FALSE, !.runs = 0]

\* loadProperties up to its first await
LoadStart(b) ==
  IF b.isLoading THEN [b EXCEPT !.ignored = TRUE]
  ELSE showSkeletons([b EXCEPT !.isLoading = TRUE, !.runs = @ + 1,
                               !.ended = "none", !.ignored = FALSE])

\* init() of a page load: the window is new, localStorage and the clock stay;
\* cached listings are shown, then loadProperties is called
PageLoad(hasAdminAPI) ==
  LET fresh == [NoBrowser EXCEPT !.page = "open", !.hasAdminAPI = hasAdminAPI,
                                 !.storage = br.storage, !.clock = br.clock,
                                 !.ticks = br.ticks, !.written = br.written]
      cached == getCachedProperties(br.storage, br.clock)
      read == [fresh EXCEPT !.got =
                 [called |-> TRUE, result |-> cached, at |-> br.clock,
                  wHas |-> br.written.has, wData |-> br.written.data,
                  wAt |-> br.written.at]]
      shown == IF ~cached.null /\ Len(cached.data) > 0
               THEN [applyFilters([read EXCEPT !.properties =
                                     Map(cached.data, processPropertyData)])
                       EXCEPT !.isLoading = FALSE]
               ELSE read
  IN
  /\ br' = LoadStart(shown)
  /\ UNCHANGED <<mainVars, reqs, rt, cn>>

\* a further call of loadProperties on the open page
LoadProperties ==
  /\ br.page = "open"
  /\ br' = LoadStart(br)
  /\ UNCHANGED <<mainVars, reqs, rt, cn>>

\* what the await of loadProperties ends with: an array of listings, an
\* empty array, nothing usable (null of fetchPropertiesDirectly, no array),
\* an array with an element processPropertyData throws on, a rejection of
\* PropertyAdminAPI.getAllProperties
FetchOutcomes == {"listings", "empty", "null", "malformed", "rejected"}

\* loadProperties from its await to its end
LoadEnd(outcome, listings, quota) ==
  LET samples == getSampleProperties
      properties == IF outcome = "listings" THEN listings ELSE samples
  IN
  /\ br.runs > 0
  /\ outcome = "rejected" => br.hasAdminAPI
  /\ br' = IF outcome \in {"listings", "empty", "null"}
           THEN LoadFinally(applyFilters(setCachedProperties(
                  [br EXCEPT !.properties = Map(properties, processPropertyData),
                             !.ended = IF outcome = "listings"
                                       THEN "api" ELSE "nodata"],
                  properties, quota)))
           ELSE LoadFinally(applyFilters(
                  [br EXCEPT !.properties = Map(samples, processPropertyData),
                             !.ended = "throw"]))
  /\ UNCHANGED <<mainVars, reqs, rt, cn>>

\* time passes in the browser
TickSteps == {1, cacheTTL - 1}

BrowserTick(d) ==
  /\ br.ticks < MaxTicks
  /\ br' = [br EXCEPT !.clock = @ + d, !.ticks = @ + 1]
  /\ UNCHANGED <<mainVars, reqs, rt, cn>>

\* the item is removed, or replaced by a text that is not an entry
StorageChanged(raw) ==
  /\ br.storage # raw
  /\ br' = [br EXCEPT !.storage = raw, !.written = NoWrite]
  /\ UNCHANGED <<mainVars, reqs, rt, cn>>

PageLoads == \E hasAdminAPI \in BOOLEAN : PageLoad(hasAdminAPI)

LoadEnds ==
  \E outcome \in FetchOutcomes, listings \in ApiListings, quota \in BOOLEAN :
    LoadEnd(outcome, listings, quota)

TimePasses == \E d \in TickSteps : BrowserTick(d)

StorageChanges == \E raw \in UnreadableItems \cup {NoItem} : StorageChanged(raw)

BrowserNext ==
  \/ PageLoads
  \/ LoadProperties
  \/ LoadEnds
  \/ TimePasses
  \/ StorageChanges

BrowserSpec == Init /\ [][BrowserNext]_vars

\* ==================================================================== claims
LengthsEqual(doc) == Len(doc.images) = Len(doc.cloudinaryPublicIds)

UploadedUrls == Map(last.uploaded, UrlOfFile)
UploadedPublicIds == Map(last.uploaded, PublicIdOfFile)

AnyRejected(douts) == \E i \in 1..Len(douts) : douts[i] = "throw"
AllRejected(douts) == \A i \in 1..Len(douts) : douts[i] = "throw"

\* C1: create, update, deleteImage and delete keep len(images) equal to
\* len(cloudinaryPublicIds): a listing they create has lists of equal length,
\* and a listing whose lists had equal length before one of them has lists of
\* equal length after it.
C1_OperationsKeepLengthsEqual ==
  [][ last'.op \in {"add", "update", "deleteImage", "delete"} =>
        \A id \in DOMAIN db' :
          (id \in DOMAIN db => LengthsEqual(db[id])) => LengthsEqual(db'[id]) ]_vars

\* C2: a deleteImage for a media id that is on the listing removes that id
\* from the stored listing and answers 200 also when the remote deletion
\* call fails.
C2_RecordUpdatedWhenRemoteDeletionFails ==
  ( /\ last.op = "deleteImage" /\ last.existed
    /\ last.pid \in Range(last.before.cloudinaryPublicIds)
    /\ AnyRejected(last.douts) )
  => ( /\ last.status = 200
       /\ last.pid \notin Range(db[last.id].cloudinaryPublicIds) )

\* C3: a delete of an existing listing removes the record and answers 200
\* whatever the outcomes of the remote deletions; a get of an id that was
\* assigned and is no longer stored answers 404.
C3_DeleteRemovesRecord ==
  /\ (last.op = "delete" /\ last.existed)
       => (last.status = 200 /\ last.id \notin DOMAIN db)
  /\ (last.op = "sdelete" /\ last.existed)
       => (last.status = 200 /\ last.id \notin DOMAIN sdb)
  /\ (last.op = "get" /\ last.id <= nextId /\ last.id \notin DOMAIN db)
       => last.status = 404
  /\ (last.op = "sget" /\ last.id <= snextId /\ last.id \notin DOMAIN sdb)
       => last.status = 404
  /\ \A id \in DOMAIN db : id <= nextId
  /\ \A id \in DOMAIN sdb : id <= snextId

\* C3 witness: a listing with media ids was deleted while every remote
\* deletion call failed.
C3_Witness ==
  /\ last.op = "delete" /\ last.existed /\ last.status = 200
  /\ Len(last.before.cloudinaryPublicIds) >= 1
  /\ AllRejected(last.douts)
  /\ last.id \notin DOMAIN db

\* C4: a create request with at least one image whose uploads all failed is
\* answered with an error and creates no record.
C4_AllUploadsFailedAborts ==
  (last.op \in {"add", "sadd"} /\ last.nfiles >= 1 /\ Len(last.uploaded) = 0)
  => (last.status >= 400 /\ ~last.created)

\* C5: a valid create request of which k uploads succeeded (k >= 1 when it
\* carried files) creates a listing whose images and media ids are the k
\* uploaded URLs and identifiers, in the same order.
C5_CreateStoresUploadedPairs ==
  ( /\ last.op = "add" /\ last.body = "valid"
    /\ (last.nfiles >= 1 => Len(last.uploaded) >= 1) )
  => ( /\ last.created /\ last.status = 201
       /\ last.id \in DOMAIN db
       /\ db[last.id].images = UploadedUrls
       /\ db[last.id].cloudinaryPublicIds = UploadedPublicIds )

\* C6: a create request that uploaded at least one image and then failed
\* without persisting a record attempted the remote deletion of every asset it
\* uploaded.
C6_OrphansDeletedOnFailure ==
  (last.op \in {"add", "sadd"} /\ Len(last.uploaded) >= 1 /\ ~last.created)
  => Range(UploadedPublicIds) \subseteq last.destroyed

\* C7: deleteImage on an existing listing answers 404 and leaves the listing
\* unchanged when the media id is not in the listing's media ids, and does
\* not answer 404 when it is.
C7_NotFoundIffNotOnListing ==
  (last.op = "deleteImage" /\ last.existed /\ last.pid # <<>>)
  => IF last.pid \in Range(last.before.cloudinaryPublicIds)
     THEN last.status # 404
     ELSE last.status = 404 /\ db[last.id] = last.before

\* C8: a successful update or deleteImage changes images and media ids
\* together: both unchanged, the same number of entries appended to both, or
\* the entries at the same indexes removed from both.
C8_ListsChangeTogether ==
  (last.op \in {"update", "deleteImage"} /\ last.status = 200)
  => LET b == last.before
         a == db[last.id]
     IN  \/ a.images = b.images /\ a.cloudinaryPublicIds = b.cloudinaryPublicIds
         \/ \E n \in 1..MaxFiles :
              /\ Len(a.images) = Len(b.images) + n
              /\ Len(a.cloudinaryPublicIds) = Len(b.cloudinaryPublicIds) + n
              /\ SubSeq(a.images, 1, Len(b.images)) = b.images
              /\ SubSeq(a.cloudinaryPublicIds, 1, Len(b.cloudinaryPublicIds))
                   = b.cloudinaryPublicIds
         \/ \E keep \in SUBSET (1..Len(b.images)) :
              /\ a.images = KeptImages(b.images, keep)
              /\ a.cloudinaryPublicIds =
                   KeptImages(b.cloudinaryPublicIds,
                              keep \cap (1..Len(b.cloudinaryPublicIds)))
              /\ Len(a.images) = Len(a.cloudinaryPublicIds)
                   + (Len(b.images) - Len(b.cloudinaryPublicIds))

\* C9: a successful update that uploaded at least one new image stores the
\* images and media ids stored before, followed by the new URLs and
\* identifiers in upload order.
C9_UpdateAppends ==
  (last.op = "update" /\ last.status = 200 /\ Len(last.uploaded) >= 1)
  => ( /\ db[last.id].images = last.before.images \o UploadedUrls
       /\ db[last.id].cloudinaryPublicIds
            = last.before.cloudinaryPublicIds \o UploadedPublicIds )

\* C9 witness: an update appended uploads to a listing that already had
\* images and media ids.
C9_Witness ==
  /\ last.op = "update" /\ last.status = 200 /\ Len(last.uploaded) >= 1
  /\ Len(last.before.images) >= 1
  /\ Len(last.before.cloudinaryPublicIds) >= 1
  /\ Len(db[last.id].images) = Len(last.before.images) + Len(last.uploaded)

\* C10: a successful update whose body has an explicit images list stores
\* exactly that list, followed by the URLs of the images the request uploaded.
C10_ExplicitImagesListKept ==
  (last.op = "update" /\ last.status = 200 /\ last.hasImages)
  => db[last.id].images = last.kept \o UploadedUrls

\* the stored listing the last request addressed, in the shape of NoDoc
LastDoc ==
  IF last.op \in {"sadd", "spatch"} THEN AsDoc(sdb[last.id]) ELSE db[last.id]

\* the request's files did not all fail to upload
UploadsUsable == last.nfiles = 0 \/ Len(last.uploaded) >= 1

\* the fields of a create body that break a field rule of the schemas
ViolatedFields(body) ==
  (IF body.title = "" THEN {"title"} ELSE {})
  \cup (IF body.location = "" THEN {"location"} ELSE {})
  \cup (IF ToLowerCase(body.type) \in LandTypeEnum \cup ServerTypeEnum
        THEN {} ELSE {"type"})
  \cup (IF body.status \in StatusEnum \cup ServerStatusEnum
        THEN {} ELSE {"status"})
  \cup (IF body.priceNum.typ # "undefined" /\ body.priceNum.num < 0
        THEN {"priceNum"} ELSE {})

\* C11: a successful update leaves every field that is absent from its
\* payload as it was stored and stores the supplied value of every field
\* that is present (status, description, price, priceNum; title and type are
\* never in the payloads).
C11_PartialPatch ==
  (last.op \in {"update", "spatch"} /\ last.status = 200)
  => LET b == last.before
         a == LastDoc
         p == last.patch
     IN  /\ a.title = b.title /\ a.type = b.type
         /\ a.status = IF p.status = "" THEN b.status ELSE p.status
         /\ a.description =
              IF p.description = "" THEN b.description ELSE p.description
         /\ a.price = IF p.price.typ = "undefined" THEN b.price
                      ELSE TextOf(p.price)
         /\ a.priceNum = IF p.priceNum.typ = "undefined" THEN b.priceNum
                         ELSE p.priceNum.num

\* C12: a create request with a negative priceNum is answered 400 with an
\* error that names priceNum and creates no record, whatever its other fields.
C12_NegativePriceNumRejected ==
  ( /\ last.op \in {"add", "sadd"} /\ UploadsUsable
    /\ "priceNum" \in ViolatedFields(AddBody(last.body)) )
  => (last.status = 400 /\ ~last.created /\ "priceNum" \in last.errors)

C14_TypeEnumAndLowercase ==
  /\ (last.op \in {"add", "sadd"} /\ last.body = "badType")
       => (last.status = 400 /\ ~last.created)
  /\ (last.op \in {"add", "sadd"} /\ last.body = "mixedCaseType" /\ UploadsUsable)
       => (last.status = 201 /\ last.created /\ LastDoc.type = "land-res")

\* C15: a create request that breaks two or more field rules is answered with
\* one error that names every field it breaks.
C15_AllViolationsEnumerated ==
  ( /\ last.op \in {"add", "sadd"} /\ UploadsUsable
    /\ Cardinality(ViolatedFields(AddBody(last.body))) >= 2 )
  => ( /\ last.status = 400
       /\ ViolatedFields(AddBody(last.body)) \subseteq last.errors )

\* C16: an otherwise valid create request with priceNum 1500 and no price is
\* answered 201 and stores priceNum 1500 and price "KES 1,500".
C16_PriceDerivedFromPriceNum ==
  (last.op \in {"add", "sadd"} /\ last.body = "noPrice" /\ UploadsUsable)
  => ( /\ last.status = 201 /\ last.created
       /\ LastDoc.priceNum = 1500
       /\ LastDoc.price = <<"K", "E", "S", " ", "1", ",", "5", "0", "0">> )

\* C17: every stored listing has at most 10 images.
C17_AtMostTenImages ==
  /\ \A id \in DOMAIN db : Len(db[id].images) <= 10
  /\ \A id \in DOMAIN sdb : Len(sdb[id].images) <= 10

\* C18: no step changes the createdAt of a stored listing.
C18_CreatedAtImmutable ==
  [][ /\ \A id \in DOMAIN db \cap DOMAIN db' :
           db'[id].createdAt = db[id].createdAt
      /\ \A id \in DOMAIN sdb \cap DOMAIN sdb' :
           sdb'[id].createdAt = sdb[id].createdAt ]_vars

\* C19: after a successful update or deleteImage the listing's updatedAt is
\* the time of that request.
C19_UpdatedAtRefreshed ==
  (last.op \in {"update", "spatch", "deleteImage"} /\ last.status = 200)
  => LastDoc.updatedAt = last.at

\* C20: a create request whose fields break a field rule has uploaded nothing
\* to the media host.
C20_ValidationBeforeUpload ==
  (last.op \in {"add", "sadd"} /\ ViolatedFields(AddBody(last.body)) # {})
  => Len(last.uploaded) = 0

\* C25: deleteImage issues a remote deletion only for a public id that is in
\* the target listing's cloudinaryPublicIds: a request naming a listing that
\* does not exist, or a public id the listing does not own, deletes no asset.
C25_RemoteDeletionOnlyForOwnedId ==
  (last.op = "deleteImage" /\ last.destroyed # {}) =>
    /\ last.existed
    /\ last.pid \in Range(last.before.cloudinaryPublicIds)

\* C26: every image that an update request uploaded is, when the request
\* completes, either referenced by the stored listing or was handed to a
\* remote deletion, also when the request is answered 404 or rejected by
\* validation.
C26_UpdateUploadsReferencedOrDeleted ==
  last.op = "update" =>
    \A i \in 1..Len(last.uploaded) :
      \/ /\ last.id \in DOMAIN db
         /\ UploadedPublicIds[i] \in Range(db[last.id].cloudinaryPublicIds)
      \/ UploadedPublicIds[i] \in last.destroyed

\* files of a request whose upload succeeded
Succeeded(q) == {i \in 1..q.n : q.out[i].settled /\ NotNullUpload(q.out[i])}

OriginalNames(q) == [j \in 1..Len(q.processed) |-> q.processed[j].originalName]

PastUploads(q) == q.pc \in {"controller", "found", "done"}

\* the last k elements of s
Suffix(s, k) == SubSeq(s, Len(s) - k + 1, Len(s))

\* C21: within one request, whatever the order in which the concurrent
\* uploads settle, every file gets exactly one outcome, the handler goes on
\* only after all outcomes are in, and the processed files, image URLs and
\* public ids are those of the files that succeeded, in the order of the
\* files.
C21_UploadsJoinedInFileOrder ==
  \A r \in Slots :
    LET q == reqs[r] IN
    /\ Len(q.order) = Cardinality(Range(q.order))
    /\ Range(q.order) = {i \in 1..q.n : q.out[i].settled}
    /\ PastUploads(q) =>
         /\ \A i \in 1..q.n : q.out[i].settled
         /\ Range(OriginalNames(q)) = Succeeded(q)
         /\ \A j \in 1..Len(q.processed) :
              /\ q.processed[j] = q.out[q.processed[j].originalName].file
              /\ \A k \in 1..Len(q.processed) :
                   j < k => OriginalNames(q)[j] < OriginalNames(q)[k]
    /\ (q.status = 200 /\ Len(q.processed) > 0) =>
         /\ Suffix(q.images, Len(q.processed)) = Map(q.processed, UrlOfFile)
         /\ Suffix(q.publicIds, Len(q.processed)) =
              Map(q.processed, PublicIdOfFile)

\* a request whose second file settled first has stored both images
C21_Witness ==
  \E r \in Slots :
    /\ reqs[r].status = 200
    /\ reqs[r].order = <<2, 1>>
    /\ Succeeded(reqs[r]) = {1, 2}

\* C24: when two update requests that each upload images for the same listing
\* interleave, the listing finally holds the images and public ids of both.
C24_BothAppendsKept ==
  \A r1, r2 \in Slots :
    (/\ r1 # r2
     /\ reqs[r1].status = 200 /\ reqs[r2].status = 200
     /\ reqs[r1].id = reqs[r2].id
     /\ Len(reqs[r1].processed) > 0 /\ Len(reqs[r2].processed) > 0) =>
      \A q \in {reqs[r1], reqs[r2]} :
        /\ Range(Map(q.processed, PublicIdOfFile)) \subseteq
             Range(db[q.id].cloudinaryPublicIds)
        /\ Range(Map(q.processed, UrlOfFile)) \subseteq Range(db[q.id].images)

\* C22: every error response (status 400 or above) of any route has a
\* success field that is false and a message.
C22_ErrorEnvelope ==
  rt.res.status >= 400 =>
    /\ "success" \in rt.res.keys
    /\ rt.res.success = FALSE
    /\ "message" \in rt.res.keys

\* C27: POST /admin/cleanup issues the remote deletion only when the
\* x-admin-token header equals the configured ADMIN_TOKEN; a request without
\* the header is answered 403 and deletes nothing, whatever the
\* configuration, ADMIN_TOKEN unset included.
C27_CleanupNeedsToken ==
  rt.res.route = "admin/cleanup" =>
    /\ rt.res.issued =>
         /\ rt.res.header.defined
         /\ rt.ADMIN_TOKEN.defined
         /\ rt.res.header = rt.ADMIN_TOKEN
    /\ ~rt.res.header.defined => (rt.res.status = 403 /\ ~rt.res.issued)

ConnectRunning == cn.pc \in {"connecting", "waiting"}

ConnectEnded == cn.pc \in {"returned", "thrown"}

\* what holds of a call of connectWithRetry at every moment
ConnectBounded ==
  /\ cn.attempts <= cn.retries
  /\ cn.attempts >= 1 => cn.waited = cn.delay * (cn.attempts - 1)
  /\ Len(cn.failures) =
       IF cn.pc = "connecting" \/ cn.result = "connection"
       THEN cn.attempts - 1 ELSE cn.attempts
  /\ cn.pc = "waiting" => cn.attempts < cn.retries
  /\ cn.result = "connection" <=> (cn.pc = "returned" /\ cn.attempts >= 1)
  /\ cn.pc = "thrown" <=>
       (/\ ConnectEnded
        /\ cn.retries >= 1
        /\ Len(cn.failures) = cn.retries)
  /\ cn.pc = "thrown" => cn.thrown = cn.failures[cn.retries]

\* C28: connectWithRetry(retries, delay) always terminates; it makes at most
\* retries attempts, returns the connection at the first success without
\* another attempt, waits delay between a failed attempt and the next one,
\* and after the retries-th failure in a row throws that last error.
C28_ConnectWithRetryTerminates ==
  /\ []ConnectBounded
  /\ [][ConnectEnded => /\ cn'.pc = cn.pc
                         /\ cn'.attempts = cn.attempts
                         /\ cn'.result = cn.result
                         /\ cn'.thrown = cn.thrown]_vars
  /\ ConnectRunning ~> ConnectEnded

\* the default call connected at its third attempt
C28_Witness ==
  /\ cn.retries = DefaultRetries
  /\ cn.result = "connection"
  /\ cn.attempts = 3
  /\ cn.waited = 2 * DefaultDelay

\* C23: getCachedProperties returns the listings last written by
\* setCachedProperties only while less than cacheTTL has elapsed since that
\* write; once cacheTTL has elapsed, or when nothing readable is stored, it
\* returns null.
C23_CacheTTL ==
  br.got.called =>
    IF br.got.wHas /\ br.got.at - br.got.wAt < cacheTTL
    THEN ~br.got.result.null /\ br.got.result.data = br.got.wData
    ELSE br.got.result.null

\* a page load read listings written one millisecond less than cacheTTL ago
C23_Witness ==
  /\ br.got.called
  /\ ~br.got.result.null
  /\ br.got.at - br.got.wAt = cacheTTL - 1

\* C29: at most one loadProperties run is in progress (a call made while
\* isLoading is true does nothing); isLoading is false after every run has
\* ended, by success, by lack of data or by a throw; every run ends with a
\* non-empty state.properties rendered.
C29_SingleLoadThatEndsRendered ==
  /\ br.runs <= 1
  /\ br.isLoading <=> br.runs = 1
  /\ br.ended # "none" =>
       /\ ~br.isLoading
       /\ Len(br.properties) > 0
       /\ br.rendered = br.properties
       /\ ~br.skeletons

\* a run that ended by a throw, after a call during it was ignored
C29_Witness ==
  /\ br.ended = "throw"
  /\ br.ignored
  /\ ~br.isLoading

\* C30: the cache is written with listings of the API only: when the API
\* fails or returns none and the sample listings are shown, the samples are
\* not written to the cache.
C30_SamplesNotCached ==
  br.written.has =>
    \A i \in 1..Len(br.written.data) : br.written.data[i].origin = "api"
====
